---- MODULE Spec2Model ----
(***************************************************************************)
(* Fitness tracker (src/Final_project.py): Exercise, Workout, User, the    *)
(* goal tracker and workout_suggester.                                     *)
(*                                                                         *)
(* Numbers.  Python floats are modelled as exact rationals over a fixed    *)
(* denominator, so that no division is needed:                             *)
(*   - calories_burned_per_minute is held in tenths (5.0 is 50);           *)
(*   - the intensity, heart-rate and difficulty factors are held in tenths *)
(*     (0.8 is 8, 1.0 is 10, 1.3 is 13);                                   *)
(*   - a calorie amount is held in units of 1/70000 kcal, 70000 being      *)
(*     70 (the weight baseline) * 10 * 10 * 10 (the three tenths above),   *)
(*     so duration * cpm * (weight / 70) * intensity * heart_rate is the   *)
(*     plain product of the five integers.                                 *)
(* IEEE rounding of the products is not modelled.                          *)
(*                                                                         *)
(* Optional values: None is the empty tuple, a present value x is <<x>>.   *)
(***************************************************************************)
EXTENDS Integers, Sequences, FiniteSets, TLC

VARIABLES
    ret,        \* the last call: its name, its arguments, what it returned or raised
    heap,       \* the Workout objects created so far, by identity (index)
    users,      \* the User objects, by name
    log,        \* fitness_tracker.log, the "Goal achieved" lines only, in order
    catalog,    \* exercise_database.json as the suggester reads it
    main        \* main(): where its loop stands and its local variables

vars == <<ret, heap, users, log, catalog, main>>

----------------------------------------------------------------------------
(* Helpers                                                                 *)

None == <<>>
Some(x) == <<x>>

\* Python truthiness of an Optional[int]: None and 0 are false
Truthy(opt) == opt # None /\ opt[1] # 0

NoError == ""

RECURSIVE SeqSum(_)
SeqSum(s) == IF s = <<>> THEN 0 ELSE Head(s) + SeqSum(Tail(s))

Range(s) == {s[i] : i \in DOMAIN s}

----------------------------------------------------------------------------
(* Exercise                                                                *)

\* the weight baseline of calculate_calories_burned and workout_suggester
BaselineWeight == 70

\* n kcal in units of 1/70000 kcal
Kcal(n) == n * BaselineWeight * 1000

Intensities == {"low", "medium", "high"}

\* validate accepting a zero duration and zero calories (< for <=)
validate_strict_less(self) ==
    IF self.duration < 0 THEN "ValueError"
    ELSE IF self.calories_burned_per_minute < 0 THEN "ValueError"
    ELSE IF self.intensity \notin Intensities THEN "ValueError"
    ELSE NoError

\* Exercise.validate: the exception it raises, NoError when it returns
validate(self) ==
    IF self.duration <= 0 THEN "ValueError"
    ELSE IF self.calories_burned_per_minute <= 0 THEN "ValueError"
    ELSE IF self.intensity \notin Intensities THEN "ValueError"
    ELSE NoError

\* Exercise.__init__: equipment_needed is None or a list; `or []` maps both
\* None and the empty list to the empty list.  The object exists only when
\* validate returned.
ExerciseNew(name, muscle_group, duration, cpm, intensity, equipment_needed) ==
    LET self == [name |-> name,
                 muscle_group |-> muscle_group,
                 duration |-> duration,
                 calories_burned_per_minute |-> cpm,
                 intensity |-> intensity,
                 equipment_needed |-> IF equipment_needed = None THEN <<>>
                                      ELSE equipment_needed[1]]
    IN [raised |-> validate(self),
        value |-> IF validate(self) = NoError THEN Some(self) ELSE None]

\* the table with the low and medium rows swapped
intensity_multipliers_swapped(intensity) ==
    CASE intensity = "low" -> 10
      [] intensity = "medium" -> 8
      [] intensity = "high" -> 12

\* intensity_multipliers, in tenths
intensity_multipliers(intensity) ==
    CASE intensity = "low" -> 8
      [] intensity = "medium" -> 10
      [] intensity = "high" -> 12

\* the step with >= for > at each threshold
heart_rate_factor_inclusive(heart_rate) ==
    IF Truthy(heart_rate)
    THEN IF heart_rate[1] >= 160 THEN 13
         ELSE IF heart_rate[1] >= 140 THEN 12
         ELSE IF heart_rate[1] >= 120 THEN 11
         ELSE 10
    ELSE 10

\* the step without its top tier
heart_rate_factor_two_tiers(heart_rate) ==
    IF Truthy(heart_rate)
    THEN IF heart_rate[1] > 140 THEN 12
         ELSE IF heart_rate[1] > 120 THEN 11
         ELSE 10
    ELSE 10

\* the heart-rate step of calculate_calories_burned, in tenths
heart_rate_factor(heart_rate) ==
    IF Truthy(heart_rate)
    THEN IF heart_rate[1] > 160 THEN 13
         ELSE IF heart_rate[1] > 140 THEN 12
         ELSE IF heart_rate[1] > 120 THEN 11
         ELSE 10
    ELSE 10

\* Exercise.calculate_calories_burned, in units of 1/70000 kcal:
\* duration * cpm * (weight / 70) * intensity_factor * heart_rate_factor
calculate_calories_burned(self, weight, heart_rate) ==
    LET weight_factor == weight    \* weight / 70, in units of 1/70
        base_calories == self.duration * self.calories_burned_per_minute
                         * weight_factor
    IN base_calories * intensity_multipliers(self.intensity)
                     * heart_rate_factor(heart_rate)

----------------------------------------------------------------------------
(* Workout                                                                 *)

\* Workout.__init__; date is datetime.now(), modelled as the number of the
\* object's creation (a later Workout has a later date)
WorkoutNew(now) ==
    [exercises |-> <<>>,
     date |-> now,
     notes |-> "",
     total_duration |-> 0,
     total_calories_burned |-> 0,
     heart_rate_log |-> <<>>]

\* Workout.add_exercise
add_exercise(self, exercise, user_weight, heart_rate) ==
    LET calories == calculate_calories_burned(exercise, user_weight, heart_rate)
    IN [self EXCEPT
          !.exercises = Append(@, exercise),
          !.total_duration = @ + exercise.duration,
          !.total_calories_burned = @ + calories,
          !.heart_rate_log = IF Truthy(heart_rate) THEN Append(@, heart_rate[1])
                             ELSE @]

\* the mean taken over the exercises instead of the heart-rate samples
get_workout_summary_per_exercise(self) ==
    LET muscle_groups_worked == {e.muscle_group : e \in Range(self.exercises)}
        equipment_used == UNION {Range(e.equipment_needed) : e \in Range(self.exercises)}
        avg_heart_rate == IF self.heart_rate_log # <<>>
                          THEN Some([sum |-> SeqSum(self.heart_rate_log),
                                     count |-> Len(self.exercises)])
                          ELSE None
    IN [date |-> self.date,
        total_duration |-> self.total_duration,
        total_calories |-> self.total_calories_burned,
        exercise_count |-> Len(self.exercises),
        muscle_groups |-> muscle_groups_worked,
        equipment_used |-> equipment_used,
        average_heart_rate |-> avg_heart_rate,
        notes |-> self.notes]

\* Workout.get_workout_summary; list(set(...)) has no defined order and is a
\* set here; the mean is the pair sum / count, None when the log is empty
get_workout_summary(self) ==
    LET muscle_groups_worked == {e.muscle_group : e \in Range(self.exercises)}
        equipment_used == UNION {Range(e.equipment_needed) : e \in Range(self.exercises)}
        avg_heart_rate == IF self.heart_rate_log # <<>>
                          THEN Some([sum |-> SeqSum(self.heart_rate_log),
                                     count |-> Len(self.heart_rate_log)])
                          ELSE None
    IN [date |-> self.date,
        total_duration |-> self.total_duration,
        total_calories |-> self.total_calories_burned,
        exercise_count |-> Len(self.exercises),
        muscle_groups |-> muscle_groups_worked,
        equipment_used |-> equipment_used,
        average_heart_rate |-> avg_heart_rate,
        notes |-> self.notes]

\* a summary that consumes the heart-rate samples it averaged
summary_call_draining(self) ==
    [self |-> [self EXCEPT !.heart_rate_log = <<>>],
     value |-> get_workout_summary(self)]

\* a call of get_workout_summary: the object after the call and the dict
\* returned; the body assigns to no attribute of self
summary_call(self) ==
    [self |-> self,
     value |-> get_workout_summary(self)]

----------------------------------------------------------------------------
(* User.  self.workouts holds references: a sequence of heap identities.   *)
(* self.goals is a dict: a sequence of goal records in insertion order,    *)
(* at most one per goal_type.  height, age and a goal's start_date are     *)
(* never read and are left out.                                            *)

\* User.__init__
UserNew(name, weight, fitness_level) ==
    [name |-> name,
     weight |-> weight,
     fitness_level |-> fitness_level,
     workouts |-> <<>>,
     goals |-> <<>>,
     progress_history |-> <<>>]

\* the current value taken from the last workout alone
get_current_value_last(self, goal_type, objs) ==
    IF goal_type = "calories"
    THEN IF self.workouts = <<>> THEN 0
         ELSE get_workout_summary(objs[self.workouts[Len(self.workouts)]]).total_calories
    ELSE IF goal_type = "workouts"
    THEN Len(self.workouts)
    ELSE 0

\* User._get_current_value, over the Workout objects of `objs`; "calories"
\* is in units of 1/70000 kcal, "workouts" is a count
get_current_value(self, goal_type, objs) ==
    IF goal_type = "calories"
    THEN SeqSum([i \in DOMAIN self.workouts |->
                    get_workout_summary(objs[self.workouts[i]]).total_calories])
    ELSE IF goal_type = "workouts"
    THEN Len(self.workouts)
    ELSE 0

\* the entry holding running totals over all entries so far
update_progress_history_running(self, workout) ==
    LET progress == [date |-> workout.date,
                     calories |-> SeqSum([i \in DOMAIN self.progress_history |->
                                            self.progress_history[i].calories])
                                  + get_workout_summary(workout).total_calories,
                     duration |-> SeqSum([i \in DOMAIN self.progress_history |->
                                            self.progress_history[i].duration])
                                  + get_workout_summary(workout).total_duration]
    IN [self EXCEPT !.progress_history = Append(@, progress)]

\* the entry written over the last entry
update_progress_history_replacing(self, workout) ==
    LET progress == [date |-> workout.date,
                     calories |-> get_workout_summary(workout).total_calories,
                     duration |-> get_workout_summary(workout).total_duration]
    IN [self EXCEPT !.progress_history =
            IF @ = <<>> THEN <<progress>> ELSE [@ EXCEPT ![Len(@)] = progress]]

\* User._update_progress_history
update_progress_history(self, workout) ==
    LET progress == [date |-> workout.date,
                     calories |-> get_workout_summary(workout).total_calories,
                     duration |-> get_workout_summary(workout).total_duration]
    IN [self EXCEPT !.progress_history = Append(@, progress)]

\* progress >= 1 with > for >=
RatioAboveOne(num, den) ==
    IF den > 0 THEN num > den ELSE num < den

\* progress >= 1 where progress = num / den, den # 0
RatioAtLeastOne(num, den) ==
    IF den > 0 THEN num >= den ELSE num <= den

\* the loop skipping a goal whose target equals its start value
RECURSIVE check_goals_from_guarded(_, _, _)
check_goals_from_guarded(self, i, objs) ==
    IF i > Len(self.goals) THEN [achieved |-> <<>>, progress |-> <<>>, raised |-> NoError]
    ELSE LET goal == self.goals[i]
             current == get_current_value(self, goal.goal_type, objs)
             num == current - goal.start_value
             den == goal.target - goal.start_value
             rest == check_goals_from_guarded(self, i + 1, objs)
         IN IF den = 0 THEN rest
            ELSE [achieved |-> (IF RatioAtLeastOne(num, den)
                                THEN <<goal.goal_type>> ELSE <<>>)
                               \o rest.achieved,
                  progress |-> <<[goal_type |-> goal.goal_type, current |-> current,
                                  num |-> num, den |-> den]>> \o rest.progress,
                  raised |-> rest.raised]

\* User._check_goals from the i-th goal on: the goal types whose
\* "Goal achieved" line is logged, in order; current and progress = num / den
\* as each iteration computes them; and the exception that ends the loop (the
\* division raises ZeroDivisionError when target = start_value)
RECURSIVE check_goals_from(_, _, _)
check_goals_from(self, i, objs) ==
    IF i > Len(self.goals) THEN [achieved |-> <<>>, progress |-> <<>>, raised |-> NoError]
    ELSE LET goal == self.goals[i]
             current == get_current_value(self, goal.goal_type, objs)
             num == current - goal.start_value
             den == goal.target - goal.start_value
         IN IF den = 0
            THEN [achieved |-> <<>>, progress |-> <<>>, raised |-> "ZeroDivisionError"]
            ELSE LET rest == check_goals_from(self, i + 1, objs)
                 IN [achieved |-> (IF RatioAtLeastOne(num, den)
                                   THEN <<goal.goal_type>> ELSE <<>>)
                                  \o rest.achieved,
                     progress |-> <<[goal_type |-> goal.goal_type, current |-> current,
                                     num |-> num, den |-> den]>> \o rest.progress,
                     raised |-> rest.raised]

check_goals(self, objs) == check_goals_from(self, 1, objs)

\* add_workout recording the progress entry once the goals are checked
add_workout_entry_last(self, w, objs) ==
    LET appended == [self EXCEPT !.workouts = Append(@, w)]
        checked == check_goals(appended, objs)
        updated == IF checked.raised = NoError
                   THEN update_progress_history(appended, objs[w])
                   ELSE appended
    IN [self |-> updated, achieved |-> checked.achieved,
        progress |-> checked.progress, raised |-> checked.raised]

\* add_workout undoing its appends when the goal check raises
add_workout_undone(self, w, objs) ==
    LET appended == [self EXCEPT !.workouts = Append(@, w)]
        updated == update_progress_history(appended, objs[w])
        checked == check_goals(updated, objs)
    IN [self |-> IF checked.raised = NoError THEN updated ELSE self,
        achieved |-> checked.achieved,
        progress |-> checked.progress, raised |-> checked.raised]

\* add_workout dropping the goals it found achieved
add_workout_dropping(self, w, objs) ==
    LET appended == [self EXCEPT !.workouts = Append(@, w)]
        updated == update_progress_history(appended, objs[w])
        checked == check_goals(updated, objs)
        kept == SelectSeq(updated.goals,
                          LAMBDA g : g.goal_type \notin Range(checked.achieved))
    IN [self |-> [updated EXCEPT !.goals = kept], achieved |-> checked.achieved,
        progress |-> checked.progress, raised |-> checked.raised]

\* User.add_workout(workout), workout the heap identity w: the user
\* afterwards, the lines logged, what _check_goals computed and the
\* exception raised
add_workout(self, w, objs) ==
    LET appended == [self EXCEPT !.workouts = Append(@, w)]
        updated == update_progress_history(appended, objs[w])
        checked == check_goals(updated, objs)
    IN [self |-> updated, achieved |-> checked.achieved,
        progress |-> checked.progress, raised |-> checked.raised]

\* the position of goal_type in the goals dict, 0 when absent
GoalIndex(goals, goal_type) ==
    IF \E i \in DOMAIN goals : goals[i].goal_type = goal_type
    THEN CHOOSE i \in DOMAIN goals : goals[i].goal_type = goal_type
    ELSE 0

\* a goal added beside the earlier goal of its type
set_goal_appending(self, goal_type, target, deadline, objs) ==
    LET goal == [goal_type |-> goal_type,
                 target |-> target,
                 deadline |-> deadline,
                 start_value |-> get_current_value(self, goal_type, objs)]
    IN [self EXCEPT !.goals = Append(@, goal)]

\* User.set_goal: a dict assignment keeps the key's position when the key
\* is present and appends it otherwise
set_goal(self, goal_type, target, deadline, objs) ==
    LET goal == [goal_type |-> goal_type,
                 target |-> target,
                 deadline |-> deadline,
                 start_value |-> get_current_value(self, goal_type, objs)]
        i == GoalIndex(self.goals, goal_type)
    IN [self EXCEPT !.goals = IF i = 0 THEN Append(@, goal)
                              ELSE [@ EXCEPT ![i] = goal]]

----------------------------------------------------------------------------
(* workout_suggester.  The catalog is None when exercise_database.json is   *)
(* missing or is not JSON, and otherwise maps a muscle group to a list of  *)
(* entries; an entry's intensity and equipment_needed keys are optional.   *)
(* A suggestion's calories_per_minute is held in hundredths.               *)

\* round(n / d) to the nearest integer, ties to even, d > 0
RoundHalfEven(n, d) ==
    LET q == n \div d
        r == n % d
    IN IF 2 * r < d THEN q
       ELSE IF 2 * r > d THEN q + 1
       ELSE IF q % 2 = 0 THEN q ELSE q + 1

\* the table defaulting to the beginner multiplier
difficulty_multipliers_low_default(fitness_level) ==
    CASE fitness_level = "beginner" -> 8
      [] fitness_level = "intermediate" -> 10
      [] fitness_level = "advanced" -> 12
      [] OTHER -> 8

\* difficulty_multipliers.get(fitness_level, 1.0), in tenths
difficulty_multipliers(fitness_level) ==
    CASE fitness_level = "beginner" -> 8
      [] fitness_level = "intermediate" -> 10
      [] fitness_level = "advanced" -> 12
      [] OTHER -> 10

\* `if available_equipment:` and the list comprehension; an empty list is
\* false, like None
equipment_filter(exercises, available_equipment) ==
    IF available_equipment # None /\ available_equipment[1] # <<>>
    THEN SelectSeq(exercises,
            LAMBDA e : \/ e.equipment_needed = None
                       \/ e.equipment_needed[1] = <<>>
                       \/ Range(e.equipment_needed[1]) \subseteq Range(available_equipment[1]))
    ELSE exercises

\* one suggestion dict
suggestion(e, user_weight, multiplier) ==
    LET cal_adjusted == e.calories_burned_per_minute * user_weight * multiplier
    IN [name |-> e.name,
        duration |-> e.duration,
        \* round(cal_adjusted, 2): cal_adjusted is in units of 1/7000
        calories_per_minute |-> RoundHalfEven(cal_adjusted, BaselineWeight),
        intensity |-> IF e.intensity = None THEN "medium" ELSE e.intensity[1],
        equipment |-> IF e.equipment_needed = None THEN <<>> ELSE e.equipment_needed[1]]

\* s inserted before the elements equal to it
InsertDescendingBeforeEqual(sorted, s) ==
    LET k == Cardinality({i \in DOMAIN sorted :
                            sorted[i].calories_per_minute > s.calories_per_minute})
    IN SubSeq(sorted, 1, k) \o <<s>> \o SubSeq(sorted, k + 1, Len(sorted))

\* s inserted into a list sorted by calories_per_minute, descending, after
\* the elements that are not smaller
InsertDescending(sorted, s) ==
    LET k == Cardinality({i \in DOMAIN sorted :
                            sorted[i].calories_per_minute >= s.calories_per_minute})
    IN SubSeq(sorted, 1, k) \o <<s>> \o SubSeq(sorted, k + 1, Len(sorted))

\* sorted(suggestions, key=calories_per_minute, reverse=True): stable
RECURSIVE SortedDescending(_)
SortedDescending(suggestions) ==
    IF suggestions = <<>> THEN <<>>
    ELSE InsertDescending(SortedDescending(SubSeq(suggestions, 1, Len(suggestions) - 1)),
                          suggestions[Len(suggestions)])

\* the lookup folding the case of the muscle group
workout_suggester_any_case(data, muscle_group, user_weight, fitness_level, available_equipment) ==
    IF data = None THEN <<>>
    ELSE LET key == IF muscle_group = "upper body" THEN "Upper Body" ELSE muscle_group
             exercises == IF key \in DOMAIN data[1] THEN data[1][key] ELSE <<>>
         IN IF exercises = <<>> THEN <<>>
            ELSE LET kept == equipment_filter(exercises, available_equipment)
                     multiplier == difficulty_multipliers(fitness_level)
                     suggestions == [i \in DOMAIN kept |->
                                        suggestion(kept[i], user_weight, multiplier)]
                 IN SortedDescending(suggestions)

\* workout_suggester(muscle_group, user_weight, fitness_level, available_equipment)
workout_suggester(data, muscle_group, user_weight, fitness_level, available_equipment) ==
    IF data = None THEN <<>>
    ELSE LET exercises == IF muscle_group \in DOMAIN data[1] THEN data[1][muscle_group]
                          ELSE <<>>
         IN IF exercises = <<>> THEN <<>>
            ELSE LET kept == equipment_filter(exercises, available_equipment)
                     multiplier == difficulty_multipliers(fitness_level)
                     suggestions == [i \in DOMAIN kept |->
                                        suggestion(kept[i], user_weight, multiplier)]
                 IN SortedDescending(suggestions)

----------------------------------------------------------------------------
(* State after construction: no call made, no object, an empty log.        *)

NoCall == [op |-> "none"]

\* main() is not running: the module is imported and its classes are called
NotRunning == [pc |-> "none"]

\* the catalog of the unit tests (TestWorkoutSuggester.setUp)
TestCatalog ==
    [muscle_group \in {"Upper Body"} |->
        << [name |-> "Push-ups", duration |-> 10, calories_burned_per_minute |-> 50,
            intensity |-> Some("medium"), equipment_needed |-> Some(<<"mat">>)] >>]

Init ==
    /\ ret = NoCall
    /\ heap = <<>>
    /\ users = <<>>
    /\ log = <<>>
    /\ catalog = Some(TestCatalog)
    /\ main = NotRunning

----------------------------------------------------------------------------
(* Exercise construction and the calorie formula, called on their own.     *)

MuscleGroups == {"Upper Body", "Legs"}
DurationInputs == {-1, 0, 10, 30}
CpmInputs == {-50, 0, 50, 75}
IntensityInputs == Intensities \cup {"extreme"}
EquipmentInputs == {None, Some(<<>>), Some(<<"mat">>)}
WeightInputs == {0, 70, 84}
HeartRateInputs ==
    {None} \cup {Some(h) : h \in {0, 110, 120, 121, 130, 140, 141, 145, 150,
                                  160, 161, 165}}

\* Exercise(name, muscle_group, duration, cpm, intensity, equipment_needed)
NewExercise(muscle_group, duration, cpm, intensity, equipment_needed) ==
    LET made == ExerciseNew("Push-ups", muscle_group, duration, cpm, intensity,
                            equipment_needed)
    IN /\ ret' = [op |-> "Exercise",
                  duration |-> duration,
                  calories_burned_per_minute |-> cpm,
                  intensity |-> intensity,
                  equipment_needed |-> equipment_needed,
                  raised |-> made.raised,
                  value |-> made.value]
       /\ UNCHANGED <<heap, users, log, catalog, main>>

\* exercise.calculate_calories_burned(weight, heart_rate) on the Exercise
\* the last call constructed
CalculateCalories(weight, heart_rate) ==
    /\ ret.op = "Exercise"
    /\ ret.raised = NoError
    /\ ret' = [op |-> "calculate_calories_burned",
               self |-> ret.value[1],
               weight |-> weight,
               heart_rate |-> heart_rate,
               raised |-> NoError,
               value |-> calculate_calories_burned(ret.value[1], weight, heart_rate)]
    /\ UNCHANGED <<heap, users, log, catalog, main>>

NextExercise ==
    \/ \E muscle_group \in MuscleGroups, duration \in DurationInputs,
          cpm \in CpmInputs, intensity \in IntensityInputs,
          equipment_needed \in EquipmentInputs :
            NewExercise(muscle_group, duration, cpm, intensity, equipment_needed)
    \/ \E weight \in WeightInputs, heart_rate \in HeartRateInputs :
            CalculateCalories(weight, heart_rate)

SpecExercise == Init /\ [][NextExercise]_vars

----------------------------------------------------------------------------
(* Workout and User, called as main and the unit tests call them: a        *)
(* Workout is created, exercises are added to it, and it is attached to a  *)
(* user once; the Workout in progress is the one created last.             *)

MaxWorkouts == 2     \* Workout objects created
MaxExercises == 2    \* exercises added to one Workout
MaxLogged == 1       \* exercises added to a Workout that goes to a user

Names == {"John"}
FitnessLevels == {"intermediate"}
UserWeights == {70}

\* the Exercise objects the callers construct
PushUps == ExerciseNew("Push-ups", "Upper Body", 10, 50, "medium", Some(<<"mat">>)).value[1]
Running == ExerciseNew("Running", "Legs", 50, 100, "medium", None).value[1]
Curls == ExerciseNew("Curls", "Upper Body", 20, 40, "high", Some(<<"dumbbell">>)).value[1]

GoalTypes == {"calories", "workouts", "steps"}
\* target, in the unit of the goal's metric
TargetInputs(goal_type) ==
    IF goal_type = "calories" THEN {Kcal(1000)}
    ELSE IF goal_type = "workouts" THEN {1}
    ELSE {10}
DeadlineInputs == {30}

\* the identities of the Workout objects some user holds
Attached == UNION {Range(users[n].workouts) : n \in DOMAIN users}

\* the Workout in progress: the one created last, not yet attached
InProgress == IF heap # <<>> /\ Len(heap) \notin Attached THEN Some(Len(heap)) ELSE None

\* User(name, weight, fitness_level=...)
NewUser(name, weight, fitness_level) ==
    /\ name \notin DOMAIN users
    /\ users' = (name :> UserNew(name, weight, fitness_level)) @@ users
    /\ ret' = [op |-> "User", name |-> name, raised |-> NoError]
    /\ UNCHANGED <<heap, log, catalog, main>>

\* workout = Workout(): the caller's variable names the new object, and the
\* one it named before is attached to a user already
NewWorkout ==
    /\ InProgress = None
    /\ Len(heap) < MaxWorkouts
    /\ heap' = Append(heap, WorkoutNew(Len(heap) + 1))
    /\ ret' = [op |-> "Workout", workout |-> Len(heap) + 1, raised |-> NoError]
    /\ UNCHANGED <<users, log, catalog, main>>

\* workout.add_exercise(exercise, user_weight, heart_rate)
AddExercise(exercise, user_weight, heart_rate) ==
    /\ InProgress # None
    /\ LET w == InProgress[1]
       IN /\ Len(heap[w].exercises) < MaxExercises
          /\ heap' = [heap EXCEPT ![w] = add_exercise(@, exercise, user_weight, heart_rate)]
          /\ ret' = [op |-> "add_exercise", workout |-> w, exercise |-> exercise,
                     user_weight |-> user_weight, heart_rate |-> heart_rate,
                     raised |-> NoError]
    /\ UNCHANGED <<users, log, catalog, main>>

\* workout.get_workout_summary()
GetWorkoutSummary(w) ==
    /\ w \in DOMAIN heap
    /\ LET call == summary_call(heap[w])
       IN /\ heap' = [heap EXCEPT ![w] = call.self]
          /\ ret' = [op |-> "get_workout_summary", workout |-> w,
                     value |-> call.value, raised |-> NoError]
    /\ UNCHANGED <<users, log, catalog, main>>

\* user.add_workout(workout): the appends are kept and the lines logged
\* before the exception stay logged when _check_goals raises
AddWorkout(name) ==
    /\ name \in DOMAIN users
    /\ InProgress # None
    /\ LET w == InProgress[1]
           done == add_workout(users[name], w, heap)
       IN /\ users' = [users EXCEPT ![name] = done.self]
          /\ log' = log \o done.achieved
          /\ ret' = [op |-> "add_workout", name |-> name, workout |-> w,
                     progress |-> done.progress, raised |-> done.raised]
    /\ UNCHANGED <<heap, catalog, main>>

\* user.set_goal(goal_type, target, deadline)
SetGoal(name, goal_type, target, deadline) ==
    /\ name \in DOMAIN users
    /\ users' = [users EXCEPT ![name] = set_goal(@, goal_type, target, deadline, heap)]
    /\ ret' = [op |-> "set_goal", name |-> name, goal_type |-> goal_type,
               target |-> target, deadline |-> deadline, raised |-> NoError]
    /\ UNCHANGED <<heap, log, catalog, main>>

Next ==
    \/ \E name \in Names, weight \in UserWeights, fitness_level \in FitnessLevels :
          NewUser(name, weight, fitness_level)
    \/ NewWorkout
    \/ \E exercise \in {PushUps, Running}, weight \in UserWeights :
          /\ InProgress # None
          /\ Len(heap[InProgress[1]].exercises) < MaxLogged
          /\ AddExercise(exercise, weight, None)
    \/ \E name \in Names : AddWorkout(name)
    \/ \E name \in Names, goal_type \in GoalTypes, deadline \in DeadlineInputs :
          \E target \in TargetInputs(goal_type) :
             SetGoal(name, goal_type, target, deadline)

Spec == Init /\ [][Next]_vars

\* one fresh Workout (TestWorkout.setUp) receiving exercises at several
\* weights, with and without a heart rate
InitWorkout ==
    /\ ret = [op |-> "Workout", workout |-> 1, raised |-> NoError]
    /\ heap = <<WorkoutNew(1)>>
    /\ users = <<>>
    /\ log = <<>>
    /\ catalog = Some(TestCatalog)
    /\ main = NotRunning

NextWorkout ==
    \/ \E exercise \in {PushUps, Curls, Running}, weight \in {70, 84},
          heart_rate \in {None, Some(0), Some(130), Some(150)} :
          AddExercise(exercise, weight, heart_rate)
    \/ \E w \in DOMAIN heap : GetWorkoutSummary(w)

SpecWorkout == InitWorkout /\ [][NextWorkout]_vars

----------------------------------------------------------------------------
(* workout_suggester over catalogs of up to MaxCatalog entries per group.  *)

MaxCatalog == 3     \* entries of the "Upper Body" group of the catalog

\* catalog entries: with one item, with two, with an empty list, without the
\* equipment_needed key, and one more item
CatalogEntries ==
    { [name |-> "Push-ups", duration |-> 10, calories_burned_per_minute |-> 50,
       intensity |-> Some("medium"), equipment_needed |-> Some(<<"mat">>)],
      [name |-> "Bench Press", duration |-> 15, calories_burned_per_minute |-> 70,
       intensity |-> Some("high"), equipment_needed |-> Some(<<"mat", "dumbbell">>)],
      [name |-> "Curls", duration |-> 15, calories_burned_per_minute |-> 30,
       intensity |-> None, equipment_needed |-> Some(<<"dumbbell">>)],
      [name |-> "Dips", duration |-> 5, calories_burned_per_minute |-> 50,
       intensity |-> Some("low"), equipment_needed |-> Some(<<>>)],
      [name |-> "Plank", duration |-> 5, calories_burned_per_minute |-> 30,
       intensity |-> Some("low"), equipment_needed |-> None] }

\* lists of entries, up to n long
RECURSIVE EntryLists(_)
EntryLists(n) ==
    IF n = 0 THEN {<<>>}
    ELSE EntryLists(n - 1) \cup
         {Append(l, e) : l \in {x \in EntryLists(n - 1) : Len(x) = n - 1},
                         e \in CatalogEntries}

Distinct(l) == \A i, j \in DOMAIN l : i # j => l[i] # l[j]

LegsEntries ==
    << [name |-> "Squats", duration |-> 10, calories_burned_per_minute |-> 60,
        intensity |-> Some("medium"), equipment_needed |-> None] >>

Catalogs ==
    {None} \cup
    { Some([muscle_group \in {"Upper Body", "Legs"} |->
               IF muscle_group = "Legs" THEN LegsEntries ELSE l]) :
        l \in {x \in EntryLists(MaxCatalog) : Distinct(x)} }

InitSuggest ==
    /\ ret = NoCall
    /\ heap = <<>>
    /\ users = <<>>
    /\ log = <<>>
    /\ catalog \in Catalogs
    /\ main = NotRunning

MuscleGroupInputs == {"Upper Body", "Legs", "upper body"}
FitnessLevelInputs == {"beginner", "intermediate", "advanced", "expert"}
SuggestWeightInputs == {70, 75, 84}
AvailableInputs ==
    {None, Some(<<>>), Some(<<"mat">>), Some(<<"dumbbell">>), Some(<<"mat", "dumbbell">>)}

\* workout_suggester(muscle_group, user_weight, fitness_level, available_equipment)
Suggest(muscle_group, user_weight, fitness_level, available_equipment) ==
    /\ ret' = [op |-> "workout_suggester",
               muscle_group |-> muscle_group,
               user_weight |-> user_weight,
               fitness_level |-> fitness_level,
               available_equipment |-> available_equipment,
               raised |-> NoError,
               value |-> workout_suggester(catalog, muscle_group, user_weight,
                                           fitness_level, available_equipment)]
    /\ UNCHANGED <<heap, users, log, catalog, main>>

NextSuggest ==
    \E muscle_group \in MuscleGroupInputs, user_weight \in SuggestWeightInputs,
       fitness_level \in FitnessLevelInputs, available_equipment \in AvailableInputs :
       Suggest(muscle_group, user_weight, fitness_level, available_equipment)

SpecSuggest == InitSuggest /\ [][NextSuggest]_vars

----------------------------------------------------------------------------
(* log_workout and the menu loop of main.  A line typed at a prompt, after *)
(* strip(), is the empty line, the decimal text of a number, or some other *)
(* text; int() and float() return the number of a numeric line and raise   *)
(* ValueError on the two others.  A number typed for the calories per      *)
(* minute is in tenths, like calories_burned_per_minute.                   *)

Blank == [text |-> "blank", value |-> 0]
Word == [text |-> "word", value |-> 0]
Num(n) == [text |-> "number", value |-> n]

\* int(line)
int(line) ==
    IF line.text = "number" THEN [raised |-> NoError, value |-> line.value]
    ELSE [raised |-> "ValueError", value |-> 0]

\* float(line)
float(line) ==
    IF line.text = "number" THEN [raised |-> NoError, value |-> line.value]
    ELSE [raised |-> "ValueError", value |-> 0]

\* str.lower() on the names that are typed and the names of the catalog
lower(name) ==
    CASE name = "Push-ups" -> "push-ups"
      [] name = "PUSH-UPS" -> "push-ups"
      [] name = "Yoga" -> "yoga"
      [] name = "Done" -> "done"
      [] name = "Back" -> "back"
      [] OTHER -> name

\* the catalog entries whose name matches exercise_name, as <<group, place>>
Matches(data, exercise_name) ==
    {gi \in UNION {{<<g, i>> : i \in DOMAIN data[g]} : g \in DOMAIN data} :
        lower(data[gi[1]][gi[2]].name) = lower(exercise_name)}

\* the match the two loops of log_workout stop at: the first entry of its
\* group (the catalogs used here have the name in one group only)
FirstMatch(data, exercise_name) ==
    CHOOSE gi \in Matches(data, exercise_name) :
        \A other \in Matches(data, exercise_name) :
            other[1] = gi[1] => gi[2] <= other[2]

\* int(heart_rate) if heart_rate else None
heart_rate_argument(heart_rate) ==
    IF heart_rate.text = "blank" THEN [raised |-> NoError, value |-> None]
    ELSE [raised |-> int(heart_rate).raised, value |-> Some(int(heart_rate).value)]

\* the try block of log_workout: the message of the ValueError it catches
validate_inputs(duration, calories_per_min, intensity) ==
    IF int(duration).raised # NoError THEN "invalid literal for int()"
    ELSE IF int(duration).value <= 0 THEN "Duration must be a positive number."
    ELSE IF float(calories_per_min).raised # NoError THEN "could not convert string to float"
    ELSE IF float(calories_per_min).value <= 0
         THEN "Calories burned per minute must be positive."
    ELSE IF intensity \notin Intensities THEN "Intensity must be low, medium, or high."
    ELSE NoError

\* the custom branch of log_workout; answers are the lines typed at its
\* prompts.  Every ValueError is caught there.
log_custom(workout, user, exercise_name, heart_rate, answers) ==
    IF answers.add_custom # "yes"
    THEN [workout |-> workout, raised |-> NoError, printed |-> "not found"]
    ELSE LET duration == int(answers.duration)
             calories_per_min == float(answers.calories_per_min)
             custom_exercise == ExerciseNew(exercise_name, answers.muscle_group,
                                            duration.value, calories_per_min.value,
                                            answers.intensity, None)
             hr == heart_rate_argument(heart_rate)
         IN IF \/ duration.raised # NoError
               \/ calories_per_min.raised # NoError
               \/ custom_exercise.raised # NoError
               \/ hr.raised # NoError
            THEN [workout |-> workout, raised |-> NoError,
                  printed |-> "Custom exercise not added"]
            ELSE [workout |-> add_exercise(workout, custom_exercise.value[1],
                                           user.weight, hr.value),
                  raised |-> NoError, printed |-> "Custom exercise added"]

\* log_workout converting the heart rate before it validates the entry
log_workout_heart_rate_first(workout, user, exercise_name, muscle_group, duration, intensity, calories_per_min, heart_rate, data, answers) ==
    IF heart_rate_argument(heart_rate).raised # NoError
    THEN [workout |-> workout, raised |-> "ValueError", printed |-> ""]
    ELSE IF validate_inputs(duration, calories_per_min, intensity) # NoError
    THEN [workout |-> workout, raised |-> NoError, printed |-> "Invalid input"]
    ELSE IF data = None
    THEN [workout |-> workout, raised |-> NoError,
          printed |-> "Could not load exercise database"]
    ELSE IF Matches(data[1], exercise_name) # {}
    THEN LET gi == FirstMatch(data[1], exercise_name)
             e == data[1][gi[1]][gi[2]]
             exercise == ExerciseNew(e.name, gi[1], int(duration).value,
                                     float(calories_per_min).value, intensity,
                                     e.equipment_needed)
         IN [workout |-> add_exercise(workout, exercise.value[1], user.weight,
                                      heart_rate_argument(heart_rate).value),
             raised |-> NoError, printed |-> "Added"]
    ELSE log_custom(workout, user, exercise_name, heart_rate, answers)

\* log_workout(workout, user, exercise_name, muscle_group, duration,
\* intensity, calories_per_min, heart_rate): the Workout afterwards, the
\* exception that leaves the function and the message printed.  data is what
\* the load of exercise_database.json gives.  The muscle group typed in main
\* is not used: a matched exercise takes its catalog group.
log_workout(workout, user, exercise_name, muscle_group, duration, intensity, calories_per_min, heart_rate, data, answers) ==
    IF validate_inputs(duration, calories_per_min, intensity) # NoError
    THEN [workout |-> workout, raised |-> NoError, printed |-> "Invalid input"]
    ELSE IF data = None
    THEN [workout |-> workout, raised |-> NoError,
          printed |-> "Could not load exercise database"]
    ELSE IF Matches(data[1], exercise_name) # {}
    THEN LET gi == FirstMatch(data[1], exercise_name)
             e == data[1][gi[1]][gi[2]]
             exercise == ExerciseNew(e.name, gi[1], int(duration).value,
                                     float(calories_per_min).value, intensity,
                                     e.equipment_needed)
             hr == heart_rate_argument(heart_rate)
         IN IF hr.raised # NoError
            THEN [workout |-> workout, raised |-> hr.raised, printed |-> ""]
            ELSE [workout |-> add_exercise(workout, exercise.value[1], user.weight,
                                           hr.value),
                  raised |-> NoError, printed |-> "Added"]
    ELSE log_custom(workout, user, exercise_name, heart_rate, answers)

\* main at its menu prompt, and main after `break`
AtMenu == [pc |-> "menu", user_name |-> "", workout |-> 0]
Exited == [pc |-> "exit", user_name |-> "", workout |-> 0]

\* option 2 building a user where one of that name exists
create_user_always(usrs, user_name, weight, height, age, fitness_level) ==
    IF \/ float(weight).raised # NoError
       \/ float(height).raised # NoError
       \/ int(age).raised # NoError
    THEN [users |-> usrs, raised |-> "ValueError"]
    ELSE [users |-> (user_name :> UserNew(user_name, float(weight).value, fitness_level))
                    @@ [n \in DOMAIN usrs \ {user_name} |-> usrs[n]],
          raised |-> NoError]

\* `if user_name not in users:` of option 2: the users afterwards and the
\* ValueError its except clause catches
create_user(usrs, user_name, weight, height, age, fitness_level) ==
    IF user_name \in DOMAIN usrs
    THEN [users |-> usrs, raised |-> NoError]
    ELSE IF \/ float(weight).raised # NoError
            \/ float(height).raised # NoError
            \/ int(age).raised # NoError
    THEN [users |-> usrs, raised |-> "ValueError"]
    ELSE [users |-> (user_name :> UserNew(user_name, float(weight).value, fitness_level))
                    @@ usrs,
          raised |-> NoError]

\* option 2 going on with the Workout of the session before
begin_workout_reusing(objs) ==
    IF objs = <<>>
    THEN [heap |-> Append(objs, WorkoutNew(Len(objs) + 1)), workout |-> Len(objs) + 1]
    ELSE [heap |-> objs, workout |-> Len(objs)]

\* workout = Workout() of option 2: the objects afterwards and the new one
begin_workout(objs) ==
    [heap |-> Append(objs, WorkoutNew(Len(objs) + 1)), workout |-> Len(objs) + 1]

\* User.view_workouts: the total statistics printed, None when it prints
\* "No workouts logged"
view_workouts(self, objs) ==
    IF self.workouts = <<>> THEN None
    ELSE Some([total_workouts |-> Len(self.workouts),
               total_duration |-> SeqSum([i \in DOMAIN self.workouts |->
                    get_workout_summary(objs[self.workouts[i]]).total_duration]),
               total_calories |-> SeqSum([i \in DOMAIN self.workouts |->
                    get_workout_summary(objs[self.workouts[i]]).total_calories])])

\* User.view_progress: the sums and the count its averages are taken from,
\* None when it prints "Not enough data"
view_progress(self) ==
    IF self.progress_history = <<>> THEN None
    ELSE Some([calories |-> SeqSum([i \in DOMAIN self.progress_history |->
                                      self.progress_history[i].calories]),
               duration |-> SeqSum([i \in DOMAIN self.progress_history |->
                                      self.progress_history[i].duration]),
               count |-> Len(self.progress_history)])

MaxEntries == 2      \* exercises log_workout adds in one run of main

\* the lines typed at the prompts
NameLines == {"John", ""}
\* weight, height, age
ProfileLines ==
    { <<Num(70), Num(180), Num(30)>>, <<Num(-70), Num(180), Num(30)>>,
      <<Word, Num(180), Num(30)>>,
      <<Num(70), Word, Num(30)>>, <<Num(70), Num(180), Word>> }
MuscleGroupLines == {"Upper Body", "back"}
EquipmentLines == {None}
GoalTypeLines == {"workouts"}
\* target (a number of workouts), days
GoalLines ==
    { <<Num(1), Num(30)>>, <<Num(0), Num(30)>>, <<Word, Num(30)>>, <<Num(1), Word>> }
NotesLines == {"felt good"}

\* the answers at the custom-exercise prompts
Decline ==
    [add_custom |-> "no", muscle_group |-> "", duration |-> Blank,
     calories_per_min |-> Blank, intensity |-> ""]
Accept ==
    [add_custom |-> "yes", muscle_group |-> "Core", duration |-> Num(20),
     calories_per_min |-> Num(30), intensity |-> "low"]

\* an entry typed at the prompts of the exercise loop that log_workout adds
PushUpsEntry ==
    [exercise_name |-> "push-ups", muscle_group |-> "Upper Body",
     duration |-> Num(10), intensity |-> "medium", calories_per_min |-> Num(50),
     heart_rate |-> Blank, answers |-> Decline]
YogaEntry == [PushUpsEntry EXCEPT !.exercise_name = "Yoga", !.muscle_group = "Core"]

\* the entries typed: the two above and the ones that differ from them at
\* one or two prompts
EntryLines ==
    { PushUpsEntry,
      [PushUpsEntry EXCEPT !.heart_rate = Num(0)],
      [PushUpsEntry EXCEPT !.heart_rate = Word],
      [PushUpsEntry EXCEPT !.duration = Word],
      [PushUpsEntry EXCEPT !.duration = Num(0)],
      [PushUpsEntry EXCEPT !.calories_per_min = Word],
      [PushUpsEntry EXCEPT !.calories_per_min = Num(0)],
      [PushUpsEntry EXCEPT !.intensity = "extreme"],
      [PushUpsEntry EXCEPT !.duration = Word, !.heart_rate = Word],
      [PushUpsEntry EXCEPT !.exercise_name = "back"],
      YogaEntry,
      [YogaEntry EXCEPT !.heart_rate = Word],
      [YogaEntry EXCEPT !.answers = Accept],
      [YogaEntry EXCEPT !.answers = Accept, !.heart_rate = Word],
      [YogaEntry EXCEPT !.answers = [Accept EXCEPT !.duration = Word]],
      [YogaEntry EXCEPT !.answers = [Accept EXCEPT !.intensity = "extreme"]] }

\* choice '1': workout suggestions for an existing user
SuggestOption(user_name, muscle_group, equipment) ==
    /\ main.pc = "menu"
    /\ ret' = IF user_name \notin DOMAIN users
              THEN [op |-> "menu 1", user_name |-> user_name, raised |-> NoError,
                    printed |-> "User not found", value |-> <<>>]
              ELSE IF muscle_group = "back"
              THEN [op |-> "menu 1", user_name |-> user_name, raised |-> NoError,
                    printed |-> "", value |-> <<>>]
              ELSE [op |-> "menu 1", user_name |-> user_name, raised |-> NoError,
                    printed |-> "suggestions",
                    value |-> workout_suggester(catalog, muscle_group,
                                                users[user_name].weight,
                                                users[user_name].fitness_level,
                                                equipment)]
    /\ UNCHANGED <<heap, users, log, catalog, main>>

\* choice '2' up to the exercise loop: the name, the profile of a new name,
\* workout = Workout()
BeginLogging(user_name, weight, height, age, fitness_level) ==
    /\ main.pc = "menu"
    /\ IF user_name = "back" \/ user_name = ""
       THEN /\ ret' = [op |-> "menu 2", user_name |-> user_name, raised |-> NoError]
            /\ UNCHANGED <<heap, users, main>>
       ELSE LET made == create_user(users, user_name, weight, height, age, fitness_level)
                begun == begin_workout(heap)
            IN IF made.raised # NoError
               THEN /\ ret' = [op |-> "menu 2", user_name |-> user_name,
                               raised |-> made.raised]
                    /\ UNCHANGED <<heap, users, main>>
               ELSE /\ Len(heap) < MaxWorkouts
                    /\ users' = made.users
                    /\ heap' = begun.heap
                    /\ main' = [pc |-> "logging", user_name |-> user_name,
                                workout |-> begun.workout]
                    /\ ret' = [op |-> "menu 2", user_name |-> user_name,
                               raised |-> NoError]
    /\ UNCHANGED <<log, catalog>>

\* one pass of the exercise loop: the prompts and log_workout.  An exception
\* that leaves log_workout leaves the loop too, for the except clause of the
\* menu loop.
LogExercise(entry) ==
    /\ main.pc = "logging"
    /\ IF entry.exercise_name = "back"
       THEN /\ ret' = [op |-> "menu 2 entry", entry |-> entry, raised |-> NoError,
                       printed |-> ""]
            /\ UNCHANGED <<heap, main>>
       ELSE LET call == log_workout(heap[main.workout], users[main.user_name],
                                    entry.exercise_name, entry.muscle_group,
                                    entry.duration, entry.intensity,
                                    entry.calories_per_min, entry.heart_rate,
                                    catalog, entry.answers)
            IN /\ heap' = [heap EXCEPT ![main.workout] = call.workout]
               /\ SeqSum([w \in DOMAIN heap' |-> Len(heap'[w].exercises)]) <= MaxEntries
               /\ main' = IF call.raised = NoError THEN main ELSE AtMenu
               /\ ret' = [op |-> "menu 2 entry", entry |-> entry,
                          raised |-> call.raised, printed |-> call.printed]
    /\ UNCHANGED <<users, log, catalog>>

\* 'done' at the exercise prompt: the notes and user.add_workout(workout);
\* the except clause of the menu loop catches what add_workout raises
FinishLogging(notes) ==
    /\ main.pc = "logging"
    /\ LET objs == [heap EXCEPT ![main.workout].notes = notes]
           done == add_workout(users[main.user_name], main.workout, objs)
       IN /\ heap' = objs
          /\ users' = [users EXCEPT ![main.user_name] = done.self]
          /\ log' = log \o done.achieved
          /\ ret' = [op |-> "menu 2 done", user_name |-> main.user_name,
                     workout |-> main.workout, progress |-> done.progress,
                     raised |-> done.raised]
    /\ main' = AtMenu
    /\ UNCHANGED catalog

\* choice '3': the workout history
HistoryOption(user_name) ==
    /\ main.pc = "menu"
    /\ ret' = [op |-> "menu 3", user_name |-> user_name, raised |-> NoError,
               value |-> IF user_name \in DOMAIN users
                         THEN view_workouts(users[user_name], heap) ELSE None]
    /\ UNCHANGED <<heap, users, log, catalog, main>>

\* choice '4': a goal for an existing user; float() and int() raise into the
\* except clause of the menu loop
GoalOption(user_name, goal_type, target, days) ==
    /\ main.pc = "menu"
    /\ IF user_name \notin DOMAIN users
       THEN /\ ret' = [op |-> "menu 4", user_name |-> user_name, raised |-> NoError,
                       printed |-> "User not found"]
            /\ UNCHANGED users
       ELSE IF float(target).raised # NoError \/ int(days).raised # NoError
       THEN /\ ret' = [op |-> "menu 4", user_name |-> user_name,
                       raised |-> "ValueError", printed |-> ""]
            /\ UNCHANGED users
       ELSE /\ users' = [users EXCEPT ![user_name] =
                            set_goal(@, goal_type, float(target).value,
                                     int(days).value, heap)]
            /\ ret' = [op |-> "menu 4", user_name |-> user_name, raised |-> NoError,
                       printed |-> "Goal set"]
    /\ UNCHANGED <<heap, log, catalog, main>>

\* choice '5': the progress report
ProgressOption(user_name) ==
    /\ main.pc = "menu"
    /\ ret' = [op |-> "menu 5", user_name |-> user_name, raised |-> NoError,
               value |-> IF user_name \in DOMAIN users
                         THEN view_progress(users[user_name]) ELSE None]
    /\ UNCHANGED <<heap, users, log, catalog, main>>

\* choice 'q' and its confirmation
Quit(confirm) ==
    /\ main.pc = "menu"
    /\ main' = IF confirm = "y" THEN Exited ELSE main
    /\ ret' = [op |-> "menu q", confirm |-> confirm, raised |-> NoError]
    /\ UNCHANGED <<heap, users, log, catalog>>

\* any other choice
OtherChoice ==
    /\ main.pc = "menu"
    /\ ret' = [op |-> "menu other", raised |-> NoError]
    /\ UNCHANGED <<heap, users, log, catalog, main>>

\* main() started: no user, and a catalog file that loads or does not
InitMenu ==
    /\ ret = NoCall
    /\ heap = <<>>
    /\ users = <<>>
    /\ log = <<>>
    /\ catalog \in {Some(TestCatalog), None}
    /\ main = AtMenu

NextMenu ==
    \/ \E user_name \in NameLines, muscle_group \in MuscleGroupLines,
          equipment \in EquipmentLines :
          SuggestOption(user_name, muscle_group, equipment)
    \/ \E user_name \in NameLines, profile \in ProfileLines,
          fitness_level \in FitnessLevels :
          BeginLogging(user_name, profile[1], profile[2], profile[3], fitness_level)
    \/ \E entry \in EntryLines : LogExercise(entry)
    \/ \E notes \in NotesLines : FinishLogging(notes)
    \/ \E user_name \in NameLines : HistoryOption(user_name)
    \/ \E user_name \in NameLines, goal_type \in GoalTypeLines, goal \in GoalLines :
          GoalOption(user_name, goal_type, goal[1], goal[2])
    \/ \E user_name \in NameLines : ProgressOption(user_name)
    \/ \E confirm \in {"y", "n"} : Quit(confirm)
    \/ OtherChoice

SpecMenu == InitMenu /\ [][NextMenu]_vars

----------------------------------------------------------------------------
(* Claims about Exercise, under SpecExercise.                              *)

\* the factors as the specification tabulates them, in tenths
TableIntensityFactor(intensity) ==
    IF intensity = "low" THEN 8 ELSE IF intensity = "high" THEN 12 ELSE 10

TableHeartRateFactor(heart_rate) ==
    IF heart_rate = None THEN 10
    ELSE LET h == heart_rate[1]
         IN IF h > 160 THEN 13
            ELSE IF 140 < h /\ h <= 160 THEN 12
            ELSE IF 120 < h /\ h <= 140 THEN 11
            ELSE 10

IsPushUps10(e) ==
    /\ e.duration = 10
    /\ e.calories_burned_per_minute = 50
    /\ e.intensity = "medium"

\* C1: calculate_calories_burned(weight, heart_rate) returns
\* duration * calories_burned_per_minute * (weight / 70) * intensity_factor *
\* heart_rate_factor with the tabulated factors; Push-ups (10 min, 5.0
\* cal/min, medium) at weight 70 gives 50.0, and 60.0 with heart_rate = 150.
C1_CaloriesFormula ==
    ret.op = "calculate_calories_burned" =>
        /\ ret.value = ret.self.duration * ret.self.calories_burned_per_minute
                       * ret.weight * TableIntensityFactor(ret.self.intensity)
                       * TableHeartRateFactor(ret.heart_rate)
        /\ (IsPushUps10(ret.self) /\ ret.weight = 70 /\ ret.heart_rate = None)
              => ret.value = Kcal(50)
        /\ (IsPushUps10(ret.self) /\ ret.weight = 70 /\ ret.heart_rate = Some(150))
              => ret.value = Kcal(60)

C1_Witness ==
    /\ ret.op = "calculate_calories_burned"
    /\ IsPushUps10(ret.self)
    /\ ret.weight = 70
    /\ ret.heart_rate = Some(150)
    /\ ret.value = Kcal(60)

\* C2 as claimed: for every intensity, calculate_calories_burned(70) with no
\* heart rate equals duration * calories_burned_per_minute.
C2_AnyIntensity ==
    (ret.op = "calculate_calories_burned" /\ ret.weight = 70 /\ ret.heart_rate = None)
        => 10 * ret.value = Kcal(ret.self.duration * ret.self.calories_burned_per_minute)

\* C2 as amended: for every exercise of medium intensity,
\* calculate_calories_burned(70) with no heart rate equals
\* duration * calories_burned_per_minute.
C2_MediumIntensity ==
    (/\ ret.op = "calculate_calories_burned"
     /\ ret.weight = 70
     /\ ret.heart_rate = None
     /\ ret.self.intensity = "medium")
        => 10 * ret.value = Kcal(ret.self.duration * ret.self.calories_burned_per_minute)

C2_Witness ==
    /\ ret.op = "calculate_calories_burned"
    /\ ret.weight = 70
    /\ ret.heart_rate = None
    /\ ret.self.intensity = "medium"
    /\ ret.self.duration = 30
    /\ ret.self.calories_burned_per_minute = 75
    /\ 10 * ret.value = Kcal(30 * 75)

\* C3: constructing an Exercise with duration <= 0, calories_burned_per_minute
\* <= 0 or an intensity outside low/medium/high raises ValueError and yields
\* no object; every Exercise that exists has a positive duration, positive
\* calories per minute and a recognized intensity.
C3_InvalidExerciseRejected ==
    ret.op = "Exercise" =>
        /\ (\/ ret.duration <= 0
            \/ ret.calories_burned_per_minute <= 0
            \/ ret.intensity \notin {"low", "medium", "high"})
              => (ret.raised = "ValueError" /\ ret.value = None)
        /\ ret.value # None =>
              /\ ret.value[1].duration > 0
              /\ ret.value[1].calories_burned_per_minute > 0
              /\ ret.value[1].intensity \in {"low", "medium", "high"}

C3_Witness ==
    /\ ret.op = "Exercise"
    /\ ret.duration = 10
    /\ ret.calories_burned_per_minute = 0
    /\ ret.intensity = "medium"
    /\ ret.raised = "ValueError"
    /\ ret.value = None

----------------------------------------------------------------------------
(* Claims about Workout, under SpecWorkout.                                *)

\* C4: each add_exercise call on a workout appends the exercise, adds its
\* duration to the total duration, adds calculate_calories_burned(weight,
\* heart_rate) to the total calories, and appends the heart rate to the
\* heart-rate log exactly when the call supplied one; so after N calls on a
\* fresh Workout (all totals zero, lists empty) the totals are the sums, the
\* exercises are in call order, and the log holds one sample per call that
\* supplied a heart rate.
C4_Aggregation ==
    [][ret'.op = "add_exercise" =>
        LET w == ret'.workout
            e == ret'.exercise
            before == heap[w]
            after == heap'[w]
        IN /\ after.exercises = Append(before.exercises, e)
           /\ after.total_duration = before.total_duration + e.duration
           /\ after.total_calories_burned = before.total_calories_burned
                 + e.duration * e.calories_burned_per_minute * ret'.user_weight
                   * TableIntensityFactor(e.intensity)
                   * TableHeartRateFactor(ret'.heart_rate)
           /\ after.heart_rate_log =
                 IF ret'.heart_rate # None
                 THEN Append(before.heart_rate_log, ret'.heart_rate[1])
                 ELSE before.heart_rate_log
    ]_vars

----------------------------------------------------------------------------
(* Claims about User, under Spec.                                          *)

\* the total calories of the workouts of a history, summed over the objects
RECURSIVE HistoryCalories(_, _)
HistoryCalories(workouts, objs) ==
    IF workouts = <<>> THEN 0
    ELSE objs[Head(workouts)].total_calories_burned
         + HistoryCalories(Tail(workouts), objs)

Last(seq) == seq[Len(seq)]

\* C5: add_workout(w) appends w to the end of the user's workout list and
\* appends exactly one progress-history entry holding w's own total calories
\* and total duration (not running totals), whether or not the goal
\* evaluation that follows raises.
C5_AddWorkoutAppends ==
    [][ret'.op = "add_workout" =>
        LET before == users[ret'.name]
            after == users'[ret'.name]
            w == ret'.workout
        IN /\ after.workouts = Append(before.workouts, w)
           /\ Len(after.progress_history) = Len(before.progress_history) + 1
           /\ SubSeq(after.progress_history, 1, Len(before.progress_history))
                 = before.progress_history
           /\ Last(after.progress_history).calories = heap'[w].total_calories_burned
           /\ Last(after.progress_history).duration = heap'[w].total_duration
    ]_vars

\* the second workout's entry holds that workout's totals, which differ from
\* the running totals
C5_Witness ==
    /\ ret.op = "add_workout"
    /\ LET u == users[ret.name]
       IN /\ Len(u.workouts) = 2
          /\ Len(u.progress_history) = 2
          /\ heap[u.workouts[1]].total_calories_burned > 0
          /\ u.progress_history[2].calories = heap[u.workouts[2]].total_calories_burned
          /\ u.progress_history[2].calories # HistoryCalories(u.workouts, heap)

\* the goal types logged as achieved by the step
Signalled == Range(SubSeq(log', Len(log) + 1, Len(log')))

GoalOfType(goals, goal_type) ==
    CHOOSE g \in Range(goals) : g.goal_type = goal_type

C7_CurrentFromHistory ==
    /\ ret.op = "add_workout" =>
          \A p \in Range(ret.progress) :
             /\ p.goal_type = "calories" =>
                   p.current = HistoryCalories(users[ret.name].workouts, heap)
             /\ p.goal_type = "workouts" =>
                   p.current = Len(users[ret.name].workouts)
    /\ ret.op = "set_goal" =>
          LET g == GoalOfType(users[ret.name].goals, ret.goal_type)
          IN /\ ret.goal_type = "calories" =>
                   g.start_value = HistoryCalories(users[ret.name].workouts, heap)
             /\ ret.goal_type = "workouts" =>
                   g.start_value = Len(users[ret.name].workouts)

\* a calories goal evaluated over two workouts
C7_Witness ==
    /\ ret.op = "add_workout"
    /\ Len(users[ret.name].workouts) = 2
    /\ \E p \in Range(ret.progress) :
          /\ p.goal_type = "calories"
          /\ p.current = HistoryCalories(users[ret.name].workouts, heap)
          /\ p.current > heap[Last(users[ret.name].workouts)].total_calories_burned

\* C8: when the user holds a goal whose target equals its start value,
\* add_workout raises ZeroDivisionError.
C8_ZeroDivision ==
    (/\ ret.op = "add_workout"
     /\ \E g \in Range(users[ret.name].goals) : g.target = g.start_value)
        => ret.raised = "ZeroDivisionError"

C8_Witness ==
    /\ ret.op = "add_workout"
    /\ \E g \in Range(users[ret.name].goals) : g.target = g.start_value
    /\ ret.raised = "ZeroDivisionError"

\* C9: add_workout leaves the goals mapping as it was, and a goal whose line
\* was logged before has its line logged again by an add_workout that finds
\* its ratio >= 1.
C9_GoalsKeptAndRetriggered ==
    [][ret'.op = "add_workout" =>
        /\ users'[ret'.name].goals = users[ret'.name].goals
        /\ \A p \in Range(ret'.progress) :
              (/\ p.goal_type \in Range(log)
               /\ \/ (p.den > 0 /\ p.num >= p.den)
                  \/ (p.den < 0 /\ p.num <= p.den))
                 => p.goal_type \in Signalled
    ]_vars

\* the same goal's line logged by two add_workout calls
C9_Witness ==
    /\ ret.op = "add_workout"
    /\ \E i, j \in DOMAIN log : i < j /\ log[i] = log[j] /\ j = Len(log)

\* the place of the first goal whose target equals its start value
FirstUndefined(goals) ==
    CHOOSE k \in DOMAIN goals :
        /\ goals[k].target = goals[k].start_value
        /\ \A i \in 1..(k - 1) : goals[i].target # goals[i].start_value

\* C23: an add_workout that raises ZeroDivisionError has changed the user:
\* the workout is appended to the workout list and its entry to the progress
\* history; the goals evaluated in the call are the ones before the failing
\* goal, and no line is logged for a goal after it.
C23_FailedAddWorkoutKeepsAppends ==
    [][(ret'.op = "add_workout" /\ ret'.raised = "ZeroDivisionError") =>
        LET before == users[ret'.name]
            after == users'[ret'.name]
            k == FirstUndefined(after.goals)
        IN /\ after # before
           /\ after.workouts = Append(before.workouts, ret'.workout)
           /\ Len(after.progress_history) = Len(before.progress_history) + 1
           /\ SubSeq(after.progress_history, 1, Len(before.progress_history))
                 = before.progress_history
           /\ Last(after.progress_history).calories
                 = heap[ret'.workout].total_calories_burned
           /\ Last(after.progress_history).duration = heap[ret'.workout].total_duration
           /\ [i \in DOMAIN ret'.progress |-> ret'.progress[i].goal_type]
                 = [i \in 1..(k - 1) |-> after.goals[i].goal_type]
           /\ \A j \in DOMAIN after.goals :
                 j > k => after.goals[j].goal_type \notin Signalled
    ]_vars

\* the first of three goals failing in the add_workout of a second workout:
\* the two goals after it are not evaluated
C23_Witness ==
    /\ ret.op = "add_workout"
    /\ ret.raised = "ZeroDivisionError"
    /\ Len(users[ret.name].goals) = 3
    /\ ret.progress = <<>>
    /\ Len(users[ret.name].workouts) = 2
    /\ Len(users[ret.name].progress_history) = 2

----------------------------------------------------------------------------
(* Claims about workout_suggester, under SpecSuggest.                      *)

\* the entries of a muscle group in the catalog read, none when the file
\* could not be read or the key is absent
GroupEntries(muscle_group) ==
    IF catalog = None THEN <<>>
    ELSE IF muscle_group \in DOMAIN catalog[1] THEN catalog[1][muscle_group]
    ELSE <<>>

RequiredEquipment(e) ==
    IF e.equipment_needed = None THEN {} ELSE Range(e.equipment_needed[1])

\* C10: when available_equipment is supplied, the result holds exactly the
\* entries of the muscle group whose required equipment is all in
\* available_equipment (entries requiring none always among them); when it is
\* not supplied, the result holds every entry of the group.
C10_EquipmentFilter ==
    ret.op = "workout_suggester" =>
        LET entries == GroupEntries(ret.muscle_group)
            passing == IF ret.available_equipment = None THEN DOMAIN entries
                       ELSE {i \in DOMAIN entries :
                               RequiredEquipment(entries[i])
                                  \subseteq Range(ret.available_equipment[1])}
        IN /\ {s.name : s \in Range(ret.value)} = {entries[i].name : i \in passing}
           /\ Len(ret.value) = Cardinality(passing)

\* the place in the catalog's list of the entry a suggestion was made from
IndexOf(entries, name) == CHOOSE i \in DOMAIN entries : entries[i].name = name

EntryOf(s) ==
    LET entries == GroupEntries(ret.muscle_group)
    IN entries[IndexOf(entries, s.name)]

TableDifficulty(fitness_level) ==
    IF fitness_level = "beginner" THEN 8
    ELSE IF fitness_level = "advanced" THEN 12
    ELSE 10

\* C12 as claimed: the calories_per_minute reported for an entry equals
\* catalog_value * (weight / 70) * difficulty_multiplier.
C12_ExactAdjusted ==
    ret.op = "workout_suggester" =>
        \A s \in Range(ret.value) :
           s.calories_per_minute * 70
              = EntryOf(s).calories_burned_per_minute * ret.user_weight
                * TableDifficulty(ret.fitness_level)

\* C12 as amended: the calories_per_minute reported for an entry is
\* catalog_value * (weight / 70) * difficulty_multiplier rounded to two
\* decimal places (within half a hundredth of it), the multiplier being 0.8
\* for beginner, 1.0 for intermediate, 1.2 for advanced and 1.0 otherwise.
C12_RoundedAdjusted ==
    ret.op = "workout_suggester" =>
        \A s \in Range(ret.value) :
           LET exact == EntryOf(s).calories_burned_per_minute * ret.user_weight
                        * TableDifficulty(ret.fitness_level)
               diff == s.calories_per_minute * 70 - exact
           IN 2 * diff <= 70 /\ 2 * diff >= -70

\* Push-ups (5.0) for a user of 75 kg at an unrecognized level: 5.357...
\* reported as 5.36
C12_Witness ==
    /\ ret.op = "workout_suggester"
    /\ ret.user_weight = 75
    /\ ret.fitness_level = "expert"
    /\ \E s \in Range(ret.value) :
          /\ s.name = "Push-ups"
          /\ s.calories_per_minute = 536

\* C13: workout_suggester called with a muscle group that is not a key of
\* the catalog (exact match) returns the empty list and raises nothing.
C13_UnknownGroupEmpty ==
    (/\ ret.op = "workout_suggester"
     /\ catalog # None
     /\ ret.muscle_group \notin DOMAIN catalog[1])
        => (ret.value = <<>> /\ ret.raised = NoError)

\* "upper body" asked of a catalog that has entries under "Upper Body"
C13_Witness ==
    /\ ret.op = "workout_suggester"
    /\ catalog # None
    /\ ret.muscle_group = "upper body"
    /\ catalog[1]["Upper Body"] # <<>>
    /\ ret.value = <<>>
    /\ ret.raised = NoError

\* C17: set_goal(goal_type, target, deadline) leaves under goal_type one
\* record holding the given target and deadline and, as start_value, the
\* metric's value when called (the sum of the workouts' calories for
\* "calories", the number of workouts for "workouts"); the goals of the other
\* types stay as they were and no type ever has two records; a user just
\* constructed has no goals, no workouts and no progress history.
C17_SetGoalRecord ==
    [][/\ ret'.op = "set_goal" =>
            LET old == users[ret'.name].goals
                new == users'[ret'.name].goals
                t == ret'.goal_type
            IN /\ \E i \in DOMAIN new :
                     /\ new[i].goal_type = t
                     /\ new[i].target = ret'.target
                     /\ new[i].deadline = ret'.deadline
                     /\ t = "calories" =>
                           new[i].start_value
                             = HistoryCalories(users[ret'.name].workouts, heap)
                     /\ t = "workouts" =>
                           new[i].start_value = Len(users[ret'.name].workouts)
               /\ {new[i].goal_type : i \in DOMAIN new}
                     = {old[i].goal_type : i \in DOMAIN old} \cup {t}
               /\ \A i \in DOMAIN old :
                     old[i].goal_type # t => old[i] \in Range(new)
       /\ \A n \in DOMAIN users' :
             \A i, j \in DOMAIN users'[n].goals :
                users'[n].goals[i].goal_type = users'[n].goals[j].goal_type => i = j
       /\ ret'.op = "User" =>
             /\ users'[ret'.name].goals = <<>>
             /\ users'[ret'.name].workouts = <<>>
             /\ users'[ret'.name].progress_history = <<>>]_vars

\* a "workouts" goal set again after one workout and after a goal of another
\* type: it keeps the first place in the mapping and starts from 1
C17_Witness ==
    /\ ret.op = "set_goal"
    /\ ret.goal_type = "workouts"
    /\ Len(users[ret.name].goals) = 2
    /\ users[ret.name].goals[1].goal_type = "workouts"
    /\ users[ret.name].goals[1].start_value = 1
    /\ users[ret.name].goals[1].target = ret.target
    /\ Len(users[ret.name].workouts) = 1

\* C16: for a valid exercise and a positive weight,
\* 0 < calories(weight, 130) < calories(weight, 145) < calories(weight, 165),
\* these being the values the calls return.
C16_HeartRateMonotone ==
    (ret.op = "calculate_calories_burned" /\ ret.weight > 0) =>
        LET at(h) == calculate_calories_burned(ret.self, ret.weight, Some(h))
        IN /\ 0 < at(130)
           /\ at(130) < at(145)
           /\ at(145) < at(165)
           /\ ret.heart_rate \in {Some(130), Some(145), Some(165)}
                 => ret.value = at(ret.heart_rate[1])

\* the call at 165 of a low-intensity exercise:
\* 30 min * 7.5 * (84 / 70) * 0.8 * 1.3 = 280.8
C16_Witness ==
    /\ ret.op = "calculate_calories_burned"
    /\ ret.self.duration = 30
    /\ ret.self.calories_burned_per_minute = 75
    /\ ret.self.intensity = "low"
    /\ ret.weight = 84
    /\ ret.heart_rate = Some(165)
    /\ 10 * ret.value = Kcal(2808)

----------------------------------------------------------------------------
(* Claims about get_workout_summary, under SpecWorkout.                    *)

\* C14: the summary reports exercise_count = number of exercises added, the
\* aggregated total duration and total calories, muscle_groups = the set of
\* the exercises' muscle groups, equipment_used = the set of all their
\* equipment items, and average_heart_rate = the mean of the heart-rate log
\* (mean * count = sum), or None when the log is empty.
C14_SummaryContents ==
    ret.op = "get_workout_summary" =>
        LET self == heap[ret.workout]
            out == ret.value
        IN /\ out.exercise_count = Len(self.exercises)
           /\ out.total_duration = self.total_duration
           /\ out.total_duration = SeqSum([i \in DOMAIN self.exercises |->
                                             self.exercises[i].duration])
           /\ out.total_calories = self.total_calories_burned
           /\ \A g \in MuscleGroups :
                 g \in out.muscle_groups
                   <=> \E i \in DOMAIN self.exercises : self.exercises[i].muscle_group = g
           /\ out.muscle_groups \subseteq MuscleGroups
           /\ \A item \in {"mat", "dumbbell"} :
                 item \in out.equipment_used
                   <=> \E i \in DOMAIN self.exercises :
                          \E k \in DOMAIN self.exercises[i].equipment_needed :
                             self.exercises[i].equipment_needed[k] = item
           /\ out.equipment_used \subseteq {"mat", "dumbbell"}
           /\ IF self.heart_rate_log = <<>>
              THEN out.average_heart_rate = None
              ELSE /\ out.average_heart_rate # None
                   /\ out.average_heart_rate[1].count > 0
                   /\ out.average_heart_rate[1].sum * Len(self.heart_rate_log)
                        = SeqSum(self.heart_rate_log) * out.average_heart_rate[1].count

\* two exercises of two muscle groups, one with equipment, one heart-rate
\* sample between them
C14_Witness ==
    /\ ret.op = "get_workout_summary"
    /\ ret.value.exercise_count = 2
    /\ ret.value.muscle_groups = {"Upper Body", "Legs"}
    /\ ret.value.equipment_used = {"mat"}
    /\ ret.value.average_heart_rate = Some([sum |-> 150, count |-> 1])
    /\ ret.value.total_duration = 60

\* C15: a call of get_workout_summary leaves every workout's exercises,
\* totals, heart-rate log and notes as they were, and a call that follows a
\* call on the same workout returns an equal summary.
C15_SummaryPureRead ==
    [][ret'.op = "get_workout_summary" =>
         /\ \A w \in DOMAIN heap :
               /\ heap'[w].exercises = heap[w].exercises
               /\ heap'[w].total_duration = heap[w].total_duration
               /\ heap'[w].total_calories_burned = heap[w].total_calories_burned
               /\ heap'[w].heart_rate_log = heap[w].heart_rate_log
               /\ heap'[w].notes = heap[w].notes
         /\ DOMAIN heap' = DOMAIN heap
         /\ (ret.op = "get_workout_summary" /\ ret.workout = ret'.workout)
               => ret'.value = ret.value]_vars

\* a summary taken of a workout that holds heart-rate samples
C15_Witness ==
    /\ ret.op = "get_workout_summary"
    /\ Len(heap[ret.workout].heart_rate_log) = 2
    /\ ret.value.average_heart_rate = Some([sum |-> 280, count |-> 2])

----------------------------------------------------------------------------
(* Claims about the menu loop, under SpecMenu.                             *)

IsPrefix(old, new) ==
    /\ Len(old) <= Len(new)
    /\ SubSeq(new, 1, Len(old)) = old

\* C18: a user record appears only in a step of the log-a-workout option
\* (choice '2') taken for a name that is not in the users map; no other
\* option adds one; a user is never removed or replaced: its name, weight and
\* fitness level stay, its workouts and progress history only grow, its goals
\* change in the goal option only, and beginning to log under an existing
\* name leaves the users map as it is.
C18_UserLifecycle ==
    [][/\ DOMAIN users \subseteq DOMAIN users'
       /\ \A n \in DOMAIN users :
             /\ users'[n].name = users[n].name
             /\ users'[n].weight = users[n].weight
             /\ users'[n].fitness_level = users[n].fitness_level
             /\ IsPrefix(users[n].workouts, users'[n].workouts)
             /\ IsPrefix(users[n].progress_history, users'[n].progress_history)
             /\ ret'.op # "menu 4" => users'[n].goals = users[n].goals
       /\ DOMAIN users' # DOMAIN users =>
             /\ ret'.op = "menu 2"
             /\ ret'.user_name \notin DOMAIN users
             /\ DOMAIN users' = DOMAIN users \cup {ret'.user_name}
       /\ (ret'.op = "menu 2" /\ ret'.user_name \in DOMAIN users) => users' = users
      ]_vars

\* a second logging session begun under a name that has a workout and a goal
C18_Witness ==
    /\ ret.op = "menu 2"
    /\ main.pc = "logging"
    /\ main.user_name = "John"
    /\ main.workout = 2
    /\ users["John"].workouts = <<1>>
    /\ users["John"].goals # <<>>
    /\ users["John"].weight = 70

Rejected(entry) ==
    \/ entry.duration.text # "number"
    \/ entry.duration.value <= 0
    \/ entry.calories_per_min.text # "number"
    \/ entry.calories_per_min.value <= 0
    \/ entry.intensity \notin {"low", "medium", "high"}
    \/ catalog = None
    \/ /\ \A g \in DOMAIN catalog[1] : \A i \in DOMAIN catalog[1][g] :
             lower(catalog[1][g][i].name) # lower(entry.exercise_name)
       /\ entry.answers.add_custom # "yes"

\* C20: when log_workout is called with a duration that is not a number or
\* is <= 0, a calories-per-minute that is not a number or is <= 0, an
\* intensity other than low/medium/high, a catalog that cannot be loaded, or
\* an unmatched name whose custom exercise is declined, it returns normally,
\* the Workout in progress is unchanged and the exercise loop goes on.
C20_RejectedEntryRecoverable ==
    [][(/\ ret'.op = "menu 2 entry"
        /\ ret'.entry.exercise_name # "back"
        /\ Rejected(ret'.entry))
          => /\ ret'.raised = NoError
             /\ heap' = heap
             /\ users' = users
             /\ main' = main
             /\ main'.pc = "logging"
      ]_vars

\* an entry with a duration and a heart rate that are not numbers, typed
\* after an exercise was added
C20_Witness ==
    /\ ret.op = "menu 2 entry"
    /\ ret.entry.duration = Word
    /\ ret.entry.heart_rate = Word
    /\ ret.raised = NoError
    /\ ret.printed = "Invalid input"
    /\ main.pc = "logging"
    /\ Len(heap[main.workout].exercises) = 1

\* C21: in every state of the menu loop, also after an add_workout that
\* raised in the goal evaluation, a user's progress history is as long as the
\* user's workout list, and its i-th entry holds the date, the total calories
\* and the total duration of the i-th workout.
C21_OneEntryPerWorkout ==
    \A n \in DOMAIN users :
       /\ Len(users[n].progress_history) = Len(users[n].workouts)
       /\ \A i \in DOMAIN users[n].workouts :
             LET entry == users[n].progress_history[i]
                 workout == heap[users[n].workouts[i]]
             IN /\ entry.date = workout.date
                /\ entry.calories = workout.total_calories_burned
                /\ entry.duration = workout.total_duration

\* a second workout attached by an add_workout that raised
C21_Witness ==
    /\ ret.op = "menu 2 done"
    /\ ret.raised = "ZeroDivisionError"
    /\ Len(users[ret.user_name].workouts) = 2
    /\ Len(users[ret.user_name].progress_history) = 2
    /\ heap[2].exercises # <<>>

\* C22: in every state of the menu loop, the calories of a user's progress
\* entries add up to the "calories" current value, recomputed as the sum of
\* the total calories of the user's workouts, and the durations of the
\* entries add up to the sum of the workouts' total durations.
C22_AggregatesAgree ==
    \A n \in DOMAIN users :
       LET history == users[n].progress_history
           workouts == users[n].workouts
       IN /\ SeqSum([i \in DOMAIN history |-> history[i].calories])
               = get_current_value(users[n], "calories", heap)
          /\ SeqSum([i \in DOMAIN history |-> history[i].calories])
               = HistoryCalories(workouts, heap)
          /\ SeqSum([i \in DOMAIN history |-> history[i].duration])
               = SeqSum([i \in DOMAIN workouts |-> heap[workouts[i]].total_duration])

\* two workouts of different calories and durations in a user's history
C22_Witness ==
    /\ "John" \in DOMAIN users
    /\ Len(users["John"].workouts) = 2
    /\ users["John"].weight = 70
    /\ users["John"].progress_history[1].calories
          # users["John"].progress_history[2].calories
    /\ users["John"].progress_history[1].duration
          + users["John"].progress_history[2].duration = 30

\* C24: in the menu loop every Workout's total calories burned and total
\* duration are >= 0, and a user's "calories" and "workouts" current values
\* never decrease.
C24_TotalsNonNegative ==
    [][/\ \A w \in DOMAIN heap' :
             /\ heap'[w].total_calories_burned >= 0
             /\ heap'[w].total_duration >= 0
       /\ \A n \in DOMAIN users \cap DOMAIN users' :
             /\ HistoryCalories(users'[n].workouts, heap')
                   >= HistoryCalories(users[n].workouts, heap)
             /\ Len(users'[n].workouts) >= Len(users[n].workouts)
      ]_vars

\* C25: every add_workout of the menu loop signals every goal of the user
\* whose current value after the call is at or above its target, goals whose
\* target is below the start value recorded by set_goal included.
C25_SignalWheneverReached ==
    [][ret'.op = "menu 2 done" =>
        LET self == users'[ret'.user_name]
        IN \A i \in DOMAIN self.goals :
              get_current_value(self, self.goals[i].goal_type, heap')
                    >= self.goals[i].target
                 => self.goals[i].goal_type \in Signalled
    ]_vars

\* C26: once an exercise has been added to the workout being logged, no
\* input ends the logging session without that workout being attached to a
\* user. (A workout of a session that ended unattached is referenced nowhere
\* and the next session starts a new Workout, so it is never attached later.)
C26_SessionNeverAbandoned ==
    [][(main.pc = "logging" /\ heap[main.workout].exercises # <<>>) =>
          \/ main'.pc = "logging"
          \/ \E n \in DOMAIN users' : main.workout \in Range(users'[n].workouts)
    ]_vars

\* C27: every workout in a user's history holds at least one exercise, and
\* finishing the log-a-workout option with no accepted exercise leaves every
\* user (workouts, progress history, "workouts" current value) as it was.
C27_NoEmptyWorkoutAttached ==
    [][/\ \A n \in DOMAIN users' : \A i \in DOMAIN users'[n].workouts :
             heap'[users'[n].workouts[i]].exercises # <<>>
       /\ (ret'.op = "menu 2 done" /\ heap'[ret'.workout].exercises = <<>>)
             => users' = users
    ]_vars

====
